---- MODULE Spec2Model ----
(***************************************************************************)
(* Model of app.py, the Streamlit "AI Data Cleaning Assistant".            *)
(*                                                                         *)
(* One script run of app.py (a Streamlit rerun) is one action.  The state  *)
(* that survives a rerun is the uploaded file, st.session_state and the    *)
(* cached Groq client; everything else is recomputed by the run.           *)
(*                                                                         *)
(* Texts are sequences of tokens.  A token is an atomic piece of text:     *)
(*   "F"  the three backticks of a markdown fence                          *)
(*   "J"  the word json          "C"  the word csv                         *)
(*   "{" "}" "[" "]" "," " "     themselves                                *)
(*   "N"  a newline                                                        *)
(*   "1"  the digit 1 (a run of them is one number)                        *)
(*   "K"  the text "k": (a quoted key and its colon); Ki, Kr, Ks, Kv are   *)
(*        the keys issues, recommendations, summary, severity              *)
(*   "S" "H"  the quoted strings "s" and "high"                            *)
(***************************************************************************)
EXTENDS Integers, Sequences, FiniteSets, TLC

VARIABLES api_key, client, uploaded_file, session, origin, shown, raised,
          lastOp, response_text, pc

vars == <<api_key, client, uploaded_file, session, origin, shown, raised,
          lastOp, response_text, pc>>

(***************************************************************************)
(* Bounds of the model.                                                    *)
(***************************************************************************)
MaxLen == 4
MaxReply == 2
MaxCsv == 2

(***************************************************************************)
(* Python values.                                                          *)
(***************************************************************************)
PyNone == [t |-> "None"]
Num(n) == [t |-> "num", n |-> n]
Str(s) == [t |-> "str", s |-> s]
List(items) == [t |-> "list", items |-> items]
Dict(m) == [t |-> "dict", m |-> m]

\* Python truthiness, as used by "if analysis:" and "if cleaned_csv:".
Truthy(v) ==
    CASE v.t = "None" -> FALSE
      [] v.t = "num" -> v.n # 0
      [] v.t = "str" -> v.s # ""
      [] v.t = "list" -> Len(v.items) > 0
      [] v.t = "dict" -> DOMAIN v.m # {}
      [] v.t = "text" -> Len(v.text) > 0
      [] OTHER -> TRUE

(***************************************************************************)
(* str operations.                                                         *)
(***************************************************************************)
Whitespace == {" ", "N"}

\* str.find(tok): the first index holding tok, 0 when there is none.
find(s, tok) ==
    IF \E i \in 1..Len(s) : s[i] = tok
    THEN CHOOSE i \in 1..Len(s) : s[i] = tok /\ \A j \in 1..(i - 1) : s[j] # tok
    ELSE 0

\* str.rfind(tok): the last index holding tok, 0 when there is none.
rfind(s, tok) ==
    IF \E i \in 1..Len(s) : s[i] = tok
    THEN CHOOSE i \in 1..Len(s) : s[i] = tok /\ \A j \in (i + 1)..Len(s) : s[j] # tok
    ELSE 0

\* The first index at which the two-token text <<a, b>> starts, 0 when none.
find2(s, a, b) ==
    IF \E i \in 1..(Len(s) - 1) : s[i] = a /\ s[i + 1] = b
    THEN CHOOSE i \in 1..(Len(s) - 1) :
            /\ s[i] = a /\ s[i + 1] = b
            /\ \A j \in 1..(i - 1) : ~(s[j] = a /\ s[j + 1] = b)
    ELSE 0

\* s.split("```")[0]: the text before the first fence.
BeforeFence(s) ==
    IF find(s, "F") = 0 THEN s ELSE SubSeq(s, 1, find(s, "F") - 1)

\* s.split("```<label>")[1].split("```")[0]
AfterLabelledFence(s, label) ==
    BeforeFence(SubSeq(s, find2(s, "F", label) + 2, Len(s)))

\* s.split("```")[1].split("```")[0]
AfterFence(s) ==
    BeforeFence(SubSeq(s, find(s, "F") + 1, Len(s)))

\* str.strip()
strip(s) ==
    IF \A i \in 1..Len(s) : s[i] \in Whitespace
    THEN <<>>
    ELSE LET a == CHOOSE i \in 1..Len(s) :
                      s[i] \notin Whitespace /\ \A j \in 1..(i - 1) : s[j] \in Whitespace
             b == CHOOSE i \in 1..Len(s) :
                      s[i] \notin Whitespace /\ \A j \in (i + 1)..Len(s) : s[j] \in Whitespace
         IN SubSeq(s, a, b)

(***************************************************************************)
(* json.loads: a recursive-descent parse of one JSON value.                *)
(***************************************************************************)
KeyTokens == {"K", "Ki", "Kr", "Ks", "Kv"}
StrTokens == {"S", "H"}

KeyName(tok) ==
    CASE tok = "K" -> "k"
      [] tok = "Ki" -> "issues"
      [] tok = "Kr" -> "recommendations"
      [] tok = "Ks" -> "summary"
      [] tok = "Kv" -> "severity"

StrValue(tok) == IF tok = "H" THEN "high" ELSE "s"

\* The first index from i on that holds no whitespace (Len(s) + 1 at the end).
RECURSIVE skip_ws(_, _)
skip_ws(s, i) ==
    IF i <= Len(s) /\ s[i] \in Whitespace THEN skip_ws(s, i + 1) ELSE i

\* The first index from i on that holds no digit.
RECURSIVE skip_digits(_, _)
skip_digits(s, i) ==
    IF i <= Len(s) /\ s[i] = "1" THEN skip_digits(s, i + 1) ELSE i

\* The number written as n digits 1.
RECURSIVE Ones(_)
Ones(n) == IF n = 0 THEN 0 ELSE 10 * Ones(n - 1) + 1

Fail == [ok |-> FALSE]
Parsed(v, next) == [ok |-> TRUE, val |-> v, next |-> next]

PutKey(m, k, v) == [x \in (DOMAIN m) \cup {k} |-> IF x = k THEN v ELSE m[x]]

RECURSIVE parse_value(_, _)
RECURSIVE parse_elements(_, _, _)
RECURSIVE parse_members(_, _, _)

\* One value starting exactly at index i.
parse_value(s, i) ==
    IF i > Len(s) THEN Fail
    ELSE IF s[i] = "1"
         THEN Parsed(Num(Ones(skip_digits(s, i) - i)), skip_digits(s, i))
    ELSE IF s[i] \in StrTokens THEN Parsed(Str(StrValue(s[i])), i + 1)
    ELSE IF s[i] = "["
         THEN LET k == skip_ws(s, i + 1)
              IN IF k <= Len(s) /\ s[k] = "]"
                 THEN Parsed(List(<<>>), k + 1)
                 ELSE parse_elements(s, k, <<>>)
    ELSE IF s[i] = "{"
         THEN LET k == skip_ws(s, i + 1)
              IN IF k <= Len(s) /\ s[k] = "}"
                 THEN Parsed(Dict(<<>>), k + 1)
                 ELSE parse_members(s, k, <<>>)
    ELSE Fail

\* The elements of an array from index i on, acc holding those before.
parse_elements(s, i, acc) ==
    LET r == parse_value(s, i)
    IN IF ~r.ok THEN Fail
       ELSE LET k == skip_ws(s, r.next)
            IN IF k > Len(s) THEN Fail
               ELSE IF s[k] = "]" THEN Parsed(List(Append(acc, r.val)), k + 1)
               ELSE IF s[k] = ","
                    THEN parse_elements(s, skip_ws(s, k + 1), Append(acc, r.val))
               ELSE Fail

\* The members of an object from index i on, acc holding those before.
parse_members(s, i, acc) ==
    IF i > Len(s) \/ s[i] \notin KeyTokens THEN Fail
    ELSE LET r == parse_value(s, skip_ws(s, i + 1))
         IN IF ~r.ok THEN Fail
            ELSE LET k == skip_ws(s, r.next)
                     m == PutKey(acc, KeyName(s[i]), r.val)
                 IN IF k > Len(s) THEN Fail
                    ELSE IF s[k] = "}" THEN Parsed(Dict(m), k + 1)
                    ELSE IF s[k] = "," THEN parse_members(s, skip_ws(s, k + 1), m)
                    ELSE Fail

\* json.loads(s): [ok |-> TRUE, val |-> v], or [ok |-> FALSE] for JSONDecodeError.
json_loads(s) ==
    LET r == parse_value(s, skip_ws(s, 1))
    IN IF r.ok /\ skip_ws(s, r.next) = Len(s) + 1
       THEN [ok |-> TRUE, val |-> r.val]
       ELSE Fail

(***************************************************************************)
(* analyze_data: the parse of the model's reply (lines 87-107).            *)
(***************************************************************************)
\* Lines 89-92: the text of the first fenced block, when there is a fence.
ExtractFenced(text) ==
    IF find2(text, "F", "J") # 0 THEN AfterLabelledFence(text, "J")
    ELSE IF find(text, "F") # 0 THEN AfterFence(text)
    ELSE text

\* fallback_end without the + 1 of line 100.
fallback_end_short(t) == rfind(t, "}") - 1

\* Lines 99-100, with Python's 0-based indices: find gives -1 for no match.
fallback_start(t) == find(t, "{") - 1
fallback_end(t) == (rfind(t, "}") - 1) + 1

\* Lines 98-107: the except branch.  t is response_text as it is when the
\* handler runs, which is the stripped fence extract and not the reply.
\* A JSONDecodeError of line 103 is raised inside the handler and caught by
\* the except of line 109, which returns None.
BraceFallback(t) ==
    IF fallback_start(t) # -1 /\ fallback_end(t) > fallback_start(t)
    THEN LET r == json_loads(SubSeq(t, fallback_start(t) + 1, fallback_end(t)))
         IN IF r.ok THEN r.val ELSE PyNone
    ELSE PyNone

\* Lines 87-107: what analyze_data returns for a reply text.
parse_response(text) ==
    LET t == strip(ExtractFenced(text))
        r == json_loads(t)
    IN IF r.ok THEN r.val ELSE BraceFallback(t)

(***************************************************************************)
(* clean_data: the clean-up of the model's reply (lines 146-153).          *)
(***************************************************************************)
\* str.split('\n')
RECURSIVE SplitLines(_)
SplitLines(s) ==
    IF find(s, "N") = 0 THEN <<s>>
    ELSE <<SubSeq(s, 1, find(s, "N") - 1)>> \o SplitLines(SubSeq(s, find(s, "N") + 1, Len(s)))

\* '\n'.join(lines)
RECURSIVE JoinLines(_)
JoinLines(lines) ==
    IF Len(lines) = 0 THEN <<>>
    ELSE IF Len(lines) = 1 THEN lines[1]
    ELSE lines[1] \o <<"N">> \o JoinLines(Tail(lines))

\* [l for l in lines if not l.strip().startswith('```')]
RECURSIVE DropFenceLines(_)
DropFenceLines(lines) ==
    IF Len(lines) = 0 THEN <<>>
    ELSE LET l == strip(lines[1])
             keep == ~(Len(l) > 0 /\ l[1] = "F")
         IN (IF keep THEN <<lines[1]>> ELSE <<>>) \o DropFenceLines(Tail(lines))

\* Lines 147-153.
clean_reply(text) ==
    strip(IF find2(text, "F", "C") # 0 THEN AfterLabelledFence(text, "C")
          ELSE IF find(text, "F") # 0 THEN JoinLines(DropFenceLines(SplitLines(text)))
          ELSE text)

(***************************************************************************)
(* pd.read_csv on the cleaned text (line 349).  A line has one field more  *)
(* than it has commas; blank lines are skipped; the parse raises when a    *)
(* line after the first data line has more fields than the widest of the   *)
(* header and the first data line, or when there is no line at all.        *)
(***************************************************************************)
Table(c, r) == [t |-> "table", cols |-> c, rows |-> r]

RECURSIVE Commas(_)
Commas(l) == IF Len(l) = 0 THEN 0 ELSE (IF l[1] = "," THEN 1 ELSE 0) + Commas(Tail(l))

RECURSIVE NonBlank(_)
NonBlank(lines) ==
    IF Len(lines) = 0 THEN <<>>
    ELSE (IF Len(strip(lines[1])) > 0 THEN <<lines[1]>> ELSE <<>>) \o NonBlank(Tail(lines))

read_csv(text) ==
    LET ls == NonBlank(SplitLines(text))
        f(i) == Commas(ls[i]) + 1
        width == IF Len(ls) >= 2 /\ f(2) > f(1) THEN f(2) ELSE f(1)
    IN IF Len(ls) = 0 THEN [ok |-> FALSE]
       ELSE IF \E i \in 3..Len(ls) : f(i) > width THEN [ok |-> FALSE]
       ELSE [ok |-> TRUE, val |-> Table(f(1), Len(ls) - 1)]

(***************************************************************************)
(* The inputs: files, and the replies of the remote model.                 *)
(***************************************************************************)
Seqs(A, n) == UNION {[1..k -> A] : k \in 0..n}

JsonAlphabet == {"F", "J", "{", "}", "K", "1", "[", "]", " "}
CsvAlphabet == {"F", "C", ",", "N"}

\* A complete analysis, as the prompt asks for it.
GoodJson ==
    <<"{", "Ki", "[", "S", "]", ",", "Kr", "[", "S", "]", ",",
      "Ks", "S", ",", "Kv", "H", "}">>
\* The same inside a json fence, and after a sentence of prose.
FencedJson == <<"F", "J", " ">> \o GoodJson \o <<" ", "F">>
ProseJson == <<"J", " ">> \o GoodJson \o <<" ", "J">>
\* An object with a summary only.
PartialJson == <<"{", "Ks", "S", "}">>
\* An analysis whose issues are numbers.
NumIssuesJson ==
    <<"{", "Ki", "[", "1", "]", ",", "Kr", "[", "]", ",", "Ks", "S", "}">>
\* An object, then a fenced block of prose.
ObjectThenFence == <<"{", "K", "1", "}", " ", "F", "J", " ", "J", " ", "F">>

JsonSpecimens ==
    {GoodJson, FencedJson, ProseJson, PartialJson, NumIssuesJson, ObjectThenFence}

\* A header and a row; the same in a csv fence; a third line that is too wide.
GoodCsv == <<"C", ",", "C", "N", "C", ",", "C">>
FencedCsv == <<"F", "C", "N">> \o GoodCsv \o <<"N", "F">>
RaggedCsv == <<"C", "N", "C", "N", "C", ",", "C">>

CsvSpecimens == {GoodCsv, FencedCsv, RaggedCsv}

\* The reply texts analyze_data is checked on, one by one.
ParseTexts == Seqs(JsonAlphabet, MaxLen) \cup JsonSpecimens
\* The reply texts a session may receive.
AnalyzeTexts == Seqs(JsonAlphabet, MaxReply) \cup JsonSpecimens
CleanTexts == Seqs(CsvAlphabet, MaxCsv) \cup CsvSpecimens

Corrupt == [t |-> "corrupt"]
NoFile == [t |-> "None"]
File(stem, ext, body) == [t |-> "file", stem |-> stem, ext |-> ext, body |-> body]

\* What the uploader accepts: type=['csv', 'xlsx', 'xls'] (line 227).
Files ==
    { File("a", "csv", Table(2, 2)),
      File("b", "XLSX", Table(3, 1)),
      File("c", "csv", Corrupt) }

(***************************************************************************)
(* The functions of app.py.                                                *)
(***************************************************************************)
\* get_client without the check of line 44.
get_client_unchecked(key) == "Groq"

\* Lines 40-51.
get_client(key) == IF key = "absent" THEN "None" ELSE "Groq"

\* str.lower() on the extensions in use.
lower(ext) ==
    CASE ext = "CSV" -> "csv"
      [] ext = "XLSX" -> "xlsx"
      [] ext = "XLS" -> "xls"
      [] OTHER -> ext

\* Lines 206-222: the table, or None.
load_file(f) ==
    IF lower(f.ext) = "csv" \/ lower(f.ext) \in {"xlsx", "xls"}
    THEN IF f.body = Corrupt THEN PyNone ELSE f.body
    ELSE PyNone

Text(s) == [t |-> "text", text |-> s]

\* The remote call: it raises, or returns a text.
Raises == [err |-> TRUE]
Returns(text) == [err |-> FALSE, text |-> text]

\* Lines 55-111: what analyze_data returns, whether it issued the remote
\* call, and how it ended.
analyze_data(cl, reply) ==
    IF cl = "None" THEN [ret |-> PyNone, remote |-> FALSE, why |-> "no_client"]
    ELSE IF reply.err THEN [ret |-> PyNone, remote |-> TRUE, why |-> "remote_error"]
    ELSE LET a == parse_response(reply.text)
         IN [ret |-> a, remote |-> TRUE,
             why |-> IF a = PyNone THEN "parse_error" ELSE "parsed"]

\* ', '.join(issues) of line 125 raises TypeError unless every item is a str.
JoinRaises(issues) ==
    CASE issues.t = "list" -> \E i \in 1..Len(issues.items) : issues.items[i].t # "str"
      [] issues.t \in {"str", "dict"} -> FALSE
      [] OTHER -> TRUE

\* Lines 113-157.  The prompt is built inside the try block, before the call.
clean_data(cl, issues, reply) ==
    IF cl = "None" THEN [ret |-> PyNone, remote |-> FALSE, why |-> "no_client"]
    ELSE IF JoinRaises(issues)
         THEN [ret |-> PyNone, remote |-> FALSE, why |-> "prompt_error"]
    ELSE IF reply.err THEN [ret |-> PyNone, remote |-> TRUE, why |-> "remote_error"]
    ELSE [ret |-> Text(clean_reply(reply.text)), remote |-> TRUE, why |-> "returned"]

\* StoreAnalysis without the test of line 312.
StoreAnalysisAlways(sess, analysis) == PutKey(sess, "analysis", analysis)

\* StoreCleaned with a table stored even when read_csv raises.
StoreCleanedAnyway(sess, cleaned_csv) ==
    IF Truthy(cleaned_csv)
    THEN LET r == read_csv(cleaned_csv.text)
         IN PutKey(PutKey(sess, "cleaned_data", cleaned_csv), "cleaned_df",
                   IF r.ok THEN r.val ELSE Table(0, 0))
    ELSE sess

\* Lines 312-313.
StoreAnalysis(sess, analysis) ==
    IF Truthy(analysis) THEN PutKey(sess, "analysis", analysis) ELSE sess

\* Lines 346-354.
StoreCleaned(sess, cleaned_csv) ==
    IF Truthy(cleaned_csv)
    THEN LET s1 == PutKey(sess, "cleaned_data", cleaned_csv)
             r == read_csv(cleaned_csv.text)
         IN IF r.ok THEN PutKey(s1, "cleaned_df", r.val) ELSE s1
    ELSE sess

\* How the Clean Data Now handler ended.
CleanOutcome(c) ==
    IF c.why # "returned" THEN c.why
    ELSE IF ~Truthy(c.ret) THEN "empty"
    ELSE IF read_csv(c.ret.text).ok THEN "stored" ELSE "csv_error"

\* Whether a value can be iterated by enumerate().
Iterable(v) == v.t \in {"list", "str", "dict"}

\* Lines 316-338: whether rendering the stored analysis raises.
RenderRaises(a) ==
    IF a.t # "dict" THEN TRUE
    ELSE \/ ("severity" \in DOMAIN a.m /\ a.m["severity"].t \in {"list", "dict"})
         \/ "summary" \notin DOMAIN a.m
         \/ "issues" \notin DOMAIN a.m
         \/ ~Iterable(a.m["issues"])
         \/ "recommendations" \notin DOMAIN a.m
         \/ ~Iterable(a.m["recommendations"])

Has(sess, key) == key \in DOMAIN sess

\* Lines 231-390: whether the script run ends in an uncaught exception.
Raised(uf, cl, sess) ==
    /\ uf # NoFile
    /\ load_file(uf) # PyNone
    /\ cl # "None"
    /\ Has(sess, "analysis")
    /\ RenderRaises(sess["analysis"])

\* Lines 225-434: what a script run leaves on the page.
Widgets(uf, cl, sess) ==
    IF uf = NoFile
    THEN {"uploader", "welcome"} \cup (IF cl = "None" THEN {"key_notice"} ELSE {})
    ELSE IF load_file(uf) = PyNone THEN {"uploader", "load_error"}
    ELSE {"uploader", "metrics", "preview", "viz"} \cup
         (IF cl = "None" THEN {"key_warning"}
          ELSE {"analyze_button"} \cup
               (IF ~Has(sess, "analysis") THEN {}
                ELSE IF RenderRaises(sess["analysis"]) THEN {"exception"}
                ELSE {"analysis_panel", "clean_button"} \cup
                     (IF Has(sess, "cleaned_df")
                      THEN {"cleaned_panel", "download_button"}
                      ELSE {})))

\* Line 387: the name of the download, and line 386: its content.
Download(uf, sess) ==
    [t |-> "download", file_name |-> <<"cleaned_", uf.stem, ".csv">>,
     data |-> sess["cleaned_data"]]

(***************************************************************************)
(* The session.  session is st.session_state; origin records, for each key *)
(* of session, the file that was loaded when the value was stored; lastOp  *)
(* records what the last script run did.                                   *)
(***************************************************************************)
Empty == [k \in {} |-> PyNone]

Op(op, remote, why, ret) == [op |-> op, remote |-> remote, why |-> why, ret |-> ret]

\* The replies the remote model may give in a session, reduced to what the
\* functions above make of them.
AnalyzeReplies == {Raises} \cup {Returns(r) : r \in AnalyzeTexts}
CleanReplies == {Raises} \cup {Returns(r) : r \in CleanTexts}

\* {analyze_data(cl, reply) : reply \in AnalyzeReplies}, each text parsed once.
AnalyzeResultsGroq == {analyze_data("Groq", reply) : reply \in AnalyzeReplies}
AnalyzeResultsNone == {analyze_data("None", reply) : reply \in AnalyzeReplies}
AnalyzeResults(cl) == IF cl = "None" THEN AnalyzeResultsNone ELSE AnalyzeResultsGroq

\* {clean_data(cl, issues, reply) : reply \in CleanReplies}, each text cleaned
\* once: clean_data reads the reply only when it has a client and a prompt.
CleanResultsCalled == {clean_data("Groq", Str("s"), reply) : reply \in CleanReplies}
CleanResults(cl, issues) ==
    IF cl = "None" \/ JoinRaises(issues)
    THEN {clean_data(cl, issues, Raises)}
    ELSE CleanResultsCalled

\* The end of every script run: the page is drawn from the new state.
Rerun(uf, sess, org, op) ==
    /\ uploaded_file' = uf
    /\ session' = sess
    /\ origin' = org
    /\ shown' = Widgets(uf, client, sess)
    /\ raised' = Raised(uf, client, sess)
    /\ lastOp' = op
    /\ UNCHANGED <<api_key, client, response_text, pc>>

\* Lines 307-313 in a run of the script.
AnalyzeRun(a) ==
    LET next == StoreAnalysis(session, a.ret)
        org == IF next = session THEN origin
               ELSE PutKey(origin, "analysis", uploaded_file.stem)
    IN Rerun(uploaded_file, next, org, Op("analyze", a.remote, a.why, a.ret))

\* Lines 342-354 in a run of the script.
CleanRun(c) ==
    LET next == StoreCleaned(session, c.ret)
        o1 == IF Has(next, "cleaned_data") /\ Truthy(c.ret)
              THEN PutKey(origin, "cleaned_data", uploaded_file.stem) ELSE origin
        o2 == IF CleanOutcome(c) = "stored"
              THEN PutKey(o1, "cleaned_df", uploaded_file.stem) ELSE o1
    IN Rerun(uploaded_file, next, o2, Op("clean", c.remote, CleanOutcome(c), c.ret))

Init ==
    /\ api_key \in {"absent", "present"}
    /\ client = get_client(api_key)
    /\ uploaded_file = NoFile
    /\ session = Empty
    /\ origin = Empty
    /\ shown = Widgets(NoFile, client, Empty)
    /\ raised = FALSE
    /\ lastOp = Op("start", FALSE, "none", PyNone)
    /\ response_text = <<>>
    /\ pc = "session"

\* The user picks a file in the uploader.
Upload ==
    /\ "uploader" \in shown
    /\ \E f \in Files : Rerun(f, session, origin, Op("upload", FALSE, "none", PyNone))

\* The user removes the file from the uploader.
Remove ==
    /\ uploaded_file # NoFile
    /\ Rerun(NoFile, session, origin, Op("remove", FALSE, "none", PyNone))

\* The user presses Analyze Data Quality.
ClickAnalyze ==
    /\ "analyze_button" \in shown
    /\ \E a \in AnalyzeResults(client) : AnalyzeRun(a)

\* The user presses Clean Data Now.
ClickClean ==
    /\ "clean_button" \in shown
    /\ \E c \in CleanResults(client, session["analysis"].m["issues"]) : CleanRun(c)

\* The user presses Download Cleaned Data.
ClickDownload ==
    /\ "download_button" \in shown
    /\ Rerun(uploaded_file, session, origin,
             Op("download", FALSE, "none", Download(uploaded_file, session)))

Next == Upload \/ Remove \/ ClickAnalyze \/ ClickClean \/ ClickDownload

Spec == Init /\ [][Next]_vars

(***************************************************************************)
(* analyze_data on one reply: a loaded file, a client, an empty session,   *)
(* and one press of Analyze Data Quality answered by response_text.        *)
(***************************************************************************)
FileA == File("a", "csv", Table(2, 2))

InitParse ==
    /\ api_key = "present"
    /\ client = get_client(api_key)
    /\ uploaded_file = FileA
    /\ session = Empty
    /\ origin = Empty
    /\ shown = Widgets(FileA, client, Empty)
    /\ raised = FALSE
    /\ lastOp = Op("upload", FALSE, "none", PyNone)
    /\ response_text \in ParseTexts
    /\ pc = "ready"

ParseReply ==
    /\ pc = "ready"
    /\ "analyze_button" \in shown
    /\ LET a == analyze_data(client, Returns(response_text))
           next == StoreAnalysis(session, a.ret)
       IN /\ session' = next
          /\ origin' = IF next = session THEN origin
                       ELSE PutKey(origin, "analysis", uploaded_file.stem)
          /\ shown' = Widgets(uploaded_file, client, next)
          /\ raised' = Raised(uploaded_file, client, next)
          /\ lastOp' = Op("analyze", a.remote, a.why, a.ret)
    /\ pc' = "done"
    /\ UNCHANGED <<api_key, client, uploaded_file, response_text>>

NextParse == ParseReply

SpecParse == InitParse /\ [][NextParse]_vars

(***************************************************************************)
(* Properties.                                                             *)
(***************************************************************************)
\* The cleaned result held by a session.
CleanedPart(sess) == [k \in (DOMAIN sess) \cap {"cleaned_data", "cleaned_df"} |-> sess[k]]

\* C1: a Clean Data Now run that fails, by a remote error or by a reply that
\* does not parse as CSV, leaves cleaned_data and cleaned_df as they were.
C1_FailedCleanKeepsCleaned ==
    [][(lastOp'.op = "clean" /\ lastOp'.why \in {"remote_error", "csv_error"})
          => CleanedPart(session') = CleanedPart(session)]_vars

\* C2: an Analyze Data Quality run that fails, by a remote error or by a
\* reply no parse attempt accepts, leaves the whole session state as it was.
C2_FailedAnalyzeKeepsSession ==
    [][(lastOp'.op = "analyze" /\ lastOp'.why \in {"remote_error", "parse_error"})
          => (session' = session /\ lastOp'.ret = PyNone)]_vars

\* C2 witness: a failed parse in a session that already holds an analysis
\* and a cleaned table.
C2_Witness ==
    /\ lastOp.op = "analyze"
    /\ lastOp.why = "parse_error"
    /\ Has(session, "analysis")
    /\ Has(session, "cleaned_df")

\* The ordered chain of the specification: the fence extract is stripped and
\* parsed, and on failure the reply itself is cut from its first "{" to its
\* last "}" and parsed.
SpecChain(raw) ==
    LET r == json_loads(strip(ExtractFenced(raw)))
        a == find(raw, "{")
        b == rfind(raw, "}")
        g == IF a # 0 /\ b >= a THEN json_loads(SubSeq(raw, a, b)) ELSE Fail
    IN IF r.ok THEN r.val ELSE IF g.ok THEN g.val ELSE PyNone

\* C3: for every reply, analyze_data returns what the specification's chain
\* returns, whose brace fallback works on the raw reply.
C3_ParseIsSpecChain ==
    pc = "done" => lastOp.ret = SpecChain(response_text)

\* Whether a text has a "{" with a "}" after it.
HasBracePair(t) ==
    \E i \in 1..Len(t) : \E j \in (i + 1)..Len(t) : t[i] = "{" /\ t[j] = "}"

\* C4: for a reply without a brace pair analyze_data returns None, nothing
\* is stored and the run raises nothing.
C4_NoBracesFailsCleanly ==
    (pc = "done" /\ ~HasBracePair(response_text))
        => (lastOp.ret = PyNone /\ session = Empty /\ ~raised)

\* The places <<i, j>> of the well-formed JSON objects of a text.
Objects(t) ==
    {p \in (1..Len(t)) \X (1..Len(t)) :
        /\ p[1] < p[2]
        /\ t[p[1]] = "{"
        /\ t[p[2]] = "}"
        /\ json_loads(SubSeq(t, p[1], p[2])).ok}

OneObject(t) == find(t, "F") = 0 /\ Cardinality(Objects(t)) = 1
TheObject(t) == CHOOSE p \in Objects(t) : TRUE
ObjectValue(t) == json_loads(SubSeq(t, TheObject(t)[1], TheObject(t)[2])).val

\* C5 as stated: for every unfenced reply that holds exactly one well-formed
\* JSON object, analyze_data returns that object.
C5_OneObjectIsExtracted ==
    (pc = "done" /\ OneObject(response_text))
        => lastOp.ret = ObjectValue(response_text)

\* The text before the object has no "{" and the text after it has no "}".
CleanSurroundings(t) ==
    /\ find(SubSeq(t, 1, TheObject(t)[1] - 1), "{") = 0
    /\ find(SubSeq(t, TheObject(t)[2] + 1, Len(t)), "}") = 0

\* C5 amended: for every unfenced reply that holds exactly one well-formed
\* JSON object, with no "{" before it and no "}" after it, analyze_data
\* returns that object whenever the whole stripped reply is not itself valid
\* JSON, and the value of the whole reply when it is.
C5_OneObjectCleanSurroundings ==
    (pc = "done" /\ OneObject(response_text) /\ CleanSurroundings(response_text))
        => lastOp.ret = IF json_loads(strip(response_text)).ok
                        THEN json_loads(strip(response_text)).val
                        ELSE ObjectValue(response_text)

\* C5 witness: an object between two pieces of prose, found by the fallback.
C5_Witness ==
    /\ pc = "done"
    /\ OneObject(response_text)
    /\ CleanSurroundings(response_text)
    /\ TheObject(response_text)[1] > 1
    /\ TheObject(response_text)[2] < Len(response_text)
    /\ ~json_loads(strip(response_text)).ok
    /\ Truthy(lastOp.ret)
    /\ lastOp.ret = ObjectValue(response_text)
    /\ session["analysis"] = lastOp.ret

\* The record of the data model: the four fields, severity high/medium/low.
WellFormed(a) ==
    /\ a.t = "dict"
    /\ DOMAIN a.m = {"issues", "recommendations", "summary", "severity"}
    /\ a.m["issues"].t = "list"
    /\ a.m["recommendations"].t = "list"
    /\ a.m["summary"].t = "str"
    /\ a.m["severity"] \in {Str("high"), Str("medium"), Str("low")}

\* C6: the stored analysis is always a well-formed record, and drawing it
\* never raises.
C6_StoredAnalysisWellFormed ==
    Has(session, "analysis") => (WellFormed(session["analysis"]) /\ ~raised)

\* C7: without the credential no remote call is issued and nothing is
\* stored, while a loaded file still gets its metrics, preview and charts.
C7_NoCredentialNoCalls ==
    api_key = "absent"
        => /\ ~lastOp.remote
           /\ session = Empty
           /\ "analyze_button" \notin shown
           /\ (uploaded_file # NoFile /\ load_file(uploaded_file) # PyNone)
                 => ({"metrics", "preview", "viz", "key_warning"} \subseteq shown)

\* C7 witness: a file loaded and drawn in a session without credential.
C7_Witness ==
    /\ api_key = "absent"
    /\ lastOp.op = "upload"
    /\ uploaded_file # NoFile
    /\ {"metrics", "preview", "viz", "key_warning"} \subseteq shown

\* C8: a cleaning request is made only with a table loaded and an analysis
\* stored; the download is offered only with a cleaned table stored; and the
\* cleaned table changes only in a clean whose reply parsed as CSV.
C8_StepsInOrder ==
    [][/\ lastOp'.op = "clean"
            => /\ uploaded_file # NoFile
               /\ load_file(uploaded_file) # PyNone
               /\ Has(session, "analysis")
               /\ uploaded_file' = uploaded_file
       /\ "download_button" \in shown' => Has(session', "cleaned_df")
       /\ (Has(session', "cleaned_df")
             /\ (Has(session, "cleaned_df") => session'["cleaned_df"] # session["cleaned_df"]))
            => /\ lastOp'.op = "clean"
               /\ lastOp'.remote
               /\ lastOp'.why = "stored"
               /\ read_csv(lastOp'.ret.text).ok
               /\ session'["cleaned_df"] = read_csv(lastOp'.ret.text).val]_vars

\* C8 witness: the download pressed, after a clean that stored a table.
C8_Witness ==
    /\ lastOp.op = "download"
    /\ Has(session, "cleaned_df")
    /\ Has(session, "analysis")

\* C9: a clean, succeeding or failing, leaves the loaded table and the
\* analysis as they were, and the cleaned result is replaced only by a clean
\* that succeeded, with what that clean produced.
C9_CleanReplacesOnlyCleaned ==
    [][lastOp'.op = "clean"
          => /\ uploaded_file' = uploaded_file
             /\ load_file(uploaded_file') = load_file(uploaded_file)
             /\ Has(session', "analysis")
             /\ session'["analysis"] = session["analysis"]
             /\ lastOp'.why # "stored" => session' = session
             /\ lastOp'.why = "stored"
                   => /\ session'["cleaned_data"] = lastOp'.ret
                      /\ session'["cleaned_df"] = read_csv(lastOp'.ret.text).val]_vars

\* The frame of C9 alone: a clean never touches the loaded table or the
\* analysis.
CleanKeepsTableAndAnalysis ==
    [][lastOp'.op = "clean"
          => /\ uploaded_file' = uploaded_file
             /\ load_file(uploaded_file') = load_file(uploaded_file)
             /\ Has(session', "analysis")
             /\ session'["analysis"] = session["analysis"]]_vars

\* C10: what the page shows, passes to the next clean and offers for
\* download was derived from the file that is loaded now.
C10_ResultsOfCurrentFile ==
    /\ "analysis_panel" \in shown => origin["analysis"] = uploaded_file.stem
    /\ "cleaned_panel" \in shown
          => /\ origin["cleaned_df"] = uploaded_file.stem
             /\ origin["cleaned_data"] = uploaded_file.stem

====
